---- MODULE Spec2Model ----
(***************************************************************************)
(* The incremental aggregation engine of h-structure                       *)
(* (src/src/utils/hierarchyCalculations.ts): the LRU memoization cache,    *)
(* the node value resolver, the tree mutators updateNodeStatus and         *)
(* applyBulkOperation and the full pass recalculateTree.                   *)
(*                                                                         *)
(* JavaScript objects are cells of a heap: an address is an index of the   *)
(* sequence heap, `{...node}` appends a cell, and reference equality       *)
(* (child !== node.children[index]) is equality of addresses.  Numbers are *)
(* integers (exact arithmetic).  An optional field is <<>> when it is      *)
(* undefined and <<x>> when it holds x.                                    *)
(***************************************************************************)
EXTENDS Integers, Sequences, FiniteSets, TLC

VARIABLES
  heap,    \* every HierarchyNode object allocated so far
  cache,   \* calculationCache.cache: the Map's entries in insertion order
  calls,   \* the engine calls made so far, with their arguments and results
  shadow,  \* the same calls run against a cache that always misses
  store    \* the state of useHierarchyStore and the animation-frame
           \* callbacks it has requested

vars == <<heap, cache, calls, shadow, store>>

----------------------------------------------------------------------------
(* Optional values and the status type. *)

None == <<>>
Some(x) == <<x>>

Statuses == {"normal", "skip", "invert"}

\* create<HierarchyStore>(...): the state of the store before any of its
\* actions is called. frames are the callbacks handed to
\* requestAnimationFrame that have not run, oldest first; running is the
\* number of them the animation frame in progress has still to run.
initialStore ==
  [hierarchyData |-> None, expandedNodes |-> {}, selectedNode |-> None,
   isCalculating |-> FALSE, calculationProgress |-> 0,
   frames |-> <<>>, running |-> 0]

----------------------------------------------------------------------------
(* Bounds of the model. *)

\* engine calls made after the initial full pass
MaxCalls == 2

\* children of the node handed to the resolver on its own
MaxChildren == 3

\* calls made on a cache after its construction
MaxOps == 4

\* largest capacity a cache is constructed with
MaxSize == 2

----------------------------------------------------------------------------
(* class LRUCache: a Map keeps its keys in insertion order. *)

calculationCacheMaxSize == 50000

LRUCache_index(c, key) ==
  IF \E i \in 1..Len(c) : c[i].key = key
    THEN CHOOSE i \in 1..Len(c) : c[i].key = key
    ELSE 0

LRUCache_delete(c, i) == SubSeq(c, 1, i - 1) \o SubSeq(c, i + 1, Len(c))

\* a variant whose get returns the value and leaves the Map as it is
LRUCache_get_noTouch(c, key) ==
  LET i == LRUCache_index(c, key) IN
  [cache |-> c, value |-> IF i = 0 THEN None ELSE Some(c[i].value)]

\* get(key): a hit moves the entry to the end of the Map.
LRUCache_get(c, key) ==
  LET i == LRUCache_index(c, key) IN
  IF i = 0
    THEN [cache |-> c, value |-> None]
    ELSE [cache |-> Append(LRUCache_delete(c, i), c[i]), value |-> Some(c[i].value)]

\* set(key, value)
LRUCache_set(c, maxSize, key, value) ==
  LET i == LRUCache_index(c, key)
      d == IF i # 0 THEN LRUCache_delete(c, i)
           ELSE IF Len(c) >= maxSize
             THEN (IF c = <<>> THEN c ELSE Tail(c))
             ELSE c
  IN Append(d, [key |-> key, value |-> value])

LRUCache_clear(c) == <<>>

----------------------------------------------------------------------------
(* A machine m is the heap together with the cache the engine runs on:     *)
(* kind "lru" is calculationCache, kind "miss" a cache that never holds    *)
(* an entry.                                                               *)

Machine(h, c, k) == [heap |-> h, cache |-> c, kind |-> k, log |-> <<>>]

\* m.log records, in order, what a call did that leaves no mark on the
\* heap: the clearing of the cache ("clear"), each invocation of
\* calculateNodeValue ("calculateNodeValue") and each run of
\* calculateLeafValue or calculateParentValue ("resolve"), with the id of
\* the node concerned and whether the cache held the node's key just then.
LoggedStored(m, op, id, stored) ==
  [m EXCEPT !.log = Append(@, [op |-> op, id |-> id, stored |-> stored])]

Logged(m, op, id) == LoggedStored(m, op, id, FALSE)

CacheGet(m, key) ==
  IF m.kind = "miss" THEN [cache |-> m.cache, value |-> None]
  ELSE LRUCache_get(m.cache, key)

CacheSet(m, c, key, value) ==
  IF m.kind = "miss" THEN c
  ELSE LRUCache_set(c, calculationCacheMaxSize, key, value)

----------------------------------------------------------------------------
(* node.children of a node record, [] when it is undefined *)

childrenOrEmpty(node) == IF node.children = None THEN <<>> ELSE node.children[1]

----------------------------------------------------------------------------
(* The node value resolver. *)

\* a variant for which only a node without a children field is a leaf
isLeaf_absentOnly(node) == node.children = None

\* !node.children || node.children.length === 0
isLeaf(node) == node.children = None \/ node.children[1] = <<>>

\* node.value || 0
valueOrZero(node) == IF node.value = None THEN 0 ELSE node.value[1]

RECURSIVE joinChildren(_, _, _)
joinChildren(h, kids, i) ==
  IF i > Len(kids) THEN ""
  ELSE (IF i > 1 THEN "|" ELSE "")
       \o h[kids[i]].id \o ":" \o ToString(h[kids[i]].calculatedValue)
       \o joinChildren(h, kids, i + 1)

generateCacheKey(h, node) ==
  IF isLeaf(node)
    THEN node.id \o "-" \o node.status \o "-" \o ToString(valueOrZero(node))
    ELSE node.id \o "-" \o node.status \o "-" \o joinChildren(h, node.children[1], 1)

\* a variant that returns the value of an inverted leaf as it is
calculateLeafValue_invertKept(node) ==
  CASE node.status = "skip" -> 0
    [] OTHER -> valueOrZero(node)

calculateLeafValue(node) ==
  CASE node.status = "skip" -> 0
    [] node.status = "invert" -> 0 - valueOrZero(node)
    [] OTHER -> valueOrZero(node)

RECURSIVE reduceSum(_, _, _, _)
reduceSum(h, kids, i, sum) ==
  IF i > Len(kids) THEN sum
  ELSE reduceSum(h, kids, i + 1, sum + h[kids[i]].calculatedValue)

\* a variant that counts the value field of the node itself
calculateParentValue_addsOwnValue(h, node) ==
  LET childrenSum == reduceSum(h, node.children[1], 1, valueOrZero(node)) IN
  CASE node.status = "skip" -> 0
    [] node.status = "invert" -> 0 - childrenSum
    [] OTHER -> childrenSum

calculateParentValue(h, node) ==
  LET childrenSum == reduceSum(h, node.children[1], 1, 0) IN
  CASE node.status = "skip" -> 0
    [] node.status = "invert" -> 0 - childrenSum
    [] OTHER -> childrenSum

\* a variant that memoizes by id and status alone and consults the cache
\* whether or not forceRecalculate is set
calculateNodeValue_memoById(m, node, forceRecalculate) ==
  LET cacheKey == node.id \o "-" \o node.status
      g == CacheGet(m, cacheKey)
  IN IF g.value # None
       THEN [m |-> [m EXCEPT !.cache = g.cache], result |-> g.value[1]]
       ELSE LET result == IF isLeaf(node) THEN calculateLeafValue(node)
                          ELSE calculateParentValue(m.heap, node)
            IN [m |-> [m EXCEPT !.cache = CacheSet(m, g.cache, cacheKey, result)],
                result |-> result]

\* calculateNodeValue(node, forceRecalculate): the machine after the call
\* and the number returned.
calculateNodeValue(m, node, forceRecalculate) ==
  LET m0 == Logged(m, "calculateNodeValue", node.id)
      cacheKey == generateCacheKey(m0.heap, node)
      g == IF forceRecalculate THEN [cache |-> m0.cache, value |-> None]
           ELSE CacheGet(m0, cacheKey)
  IN IF g.value # None
       THEN [m |-> [m0 EXCEPT !.cache = g.cache], result |-> g.value[1]]
       ELSE LET result == IF isLeaf(node) THEN calculateLeafValue(node)
                          ELSE calculateParentValue(m0.heap, node)
                m1 == LoggedStored(m0, "resolve", node.id,
                                   LRUCache_index(m0.cache, cacheKey) # 0)
            IN [m |-> [m1 EXCEPT !.cache = CacheSet(m1, g.cache, cacheKey, result)],
                result |-> result]

\* a variant that invokes the resolver a first time before the assignment
assignCalculatedValue_twice(m, a) ==
  LET r0 == calculateNodeValue(m, m.heap[a], TRUE)
      r == calculateNodeValue(r0.m, m.heap[a], TRUE)
  IN [r.m EXCEPT !.heap[a].calculatedValue = r.result]

\* updatedNode.calculatedValue = calculateNodeValue(updatedNode, true), for
\* the object at address a.
assignCalculatedValue(m, a) ==
  LET r == calculateNodeValue(m, m.heap[a], TRUE) IN
  [r.m EXCEPT !.heap[a].calculatedValue = r.result]

\* const updatedNode = { ...fields }: a new object, at the next address.
allocate(m, node) == [m EXCEPT !.heap = Append(@, node)]

\* a variant that reports a change for every node visited
hasChanges_always(updatedChildren, children) == TRUE

hasChanges(updatedChildren, children) ==
  \E index \in 1..Len(updatedChildren) : updatedChildren[index] # children[index]

----------------------------------------------------------------------------
(* updateNodeStatus *)

RECURSIVE updateNodeRecursive(_, _, _, _)
RECURSIVE updateChildren(_, _, _, _, _, _)

\* a variant that writes the status and the aggregates into the nodes it
\* was given
updateNodeRecursive_inPlace(m, a, nodeId, newStatus) ==
  LET node == m.heap[a] IN
  IF node.id = nodeId
    THEN [m |-> assignCalculatedValue([m EXCEPT !.heap[a].status = newStatus], a),
          ret |-> a]
  ELSE IF node.children # None
    THEN LET k == updateChildren(m, node.children[1], 1, nodeId, newStatus, <<>>) IN
         [m |-> assignCalculatedValue(k.m, a), ret |-> a]
  ELSE [m |-> m, ret |-> a]

\* a variant that gives the new status to the ancestors of the target too
updateNodeRecursive_statusOnPath(m, a, nodeId, newStatus) ==
  LET node == m.heap[a] IN
  IF node.id = nodeId
    THEN LET b == Len(m.heap) + 1
             m1 == allocate(m, [node EXCEPT !.status = newStatus])
         IN [m |-> assignCalculatedValue(m1, b), ret |-> b]
  ELSE IF node.children # None
    THEN LET k == updateChildren(m, node.children[1], 1, nodeId, newStatus, <<>>) IN
         IF hasChanges(k.ret, node.children[1])
           THEN LET b == Len(k.m.heap) + 1
                    m1 == allocate(k.m, [node EXCEPT !.children = Some(k.ret),
                                                     !.status = newStatus])
                IN [m |-> assignCalculatedValue(m1, b), ret |-> b]
           ELSE [m |-> k.m, ret |-> a]
  ELSE [m |-> m, ret |-> a]

\* a variant that toggles: a target that has the new status already goes
\* back to normal
updateNodeRecursive_toggle(m, a, nodeId, newStatus) ==
  LET node == m.heap[a] IN
  IF node.id = nodeId
    THEN LET b == Len(m.heap) + 1
             m1 == allocate(m, [node EXCEPT !.status = IF @ = newStatus THEN "normal"
                                                        ELSE newStatus])
         IN [m |-> assignCalculatedValue(m1, b), ret |-> b]
  ELSE IF node.children # None
    THEN LET k == updateChildren(m, node.children[1], 1, nodeId, newStatus, <<>>) IN
         IF hasChanges(k.ret, node.children[1])
           THEN LET b == Len(k.m.heap) + 1
                    m1 == allocate(k.m, [node EXCEPT !.children = Some(k.ret)])
                IN [m |-> assignCalculatedValue(m1, b), ret |-> b]
           ELSE [m |-> k.m, ret |-> a]
  ELSE [m |-> m, ret |-> a]

\* a variant that makes every ancestor of the target normal, so that the
\* edit shows in the total
updateNodeRecursive_unskipPath(m, a, nodeId, newStatus) ==
  LET node == m.heap[a] IN
  IF node.id = nodeId
    THEN LET b == Len(m.heap) + 1
             m1 == allocate(m, [node EXCEPT !.status = newStatus])
         IN [m |-> assignCalculatedValue(m1, b), ret |-> b]
  ELSE IF node.children # None
    THEN LET k == updateChildren(m, node.children[1], 1, nodeId, newStatus, <<>>) IN
         IF hasChanges(k.ret, node.children[1])
           THEN LET b == Len(k.m.heap) + 1
                    m1 == allocate(k.m, [node EXCEPT !.children = Some(k.ret),
                                                     !.status = "normal"])
                IN [m |-> assignCalculatedValue(m1, b), ret |-> b]
           ELSE [m |-> k.m, ret |-> a]
  ELSE [m |-> m, ret |-> a]

\* a variant that leaves the aggregate of the ancestors as it was
updateNodeRecursive_staleAncestors(m, a, nodeId, newStatus) ==
  LET node == m.heap[a] IN
  IF node.id = nodeId
    THEN LET b == Len(m.heap) + 1
             m1 == allocate(m, [node EXCEPT !.status = newStatus])
         IN [m |-> assignCalculatedValue(m1, b), ret |-> b]
  ELSE IF node.children # None
    THEN LET k == updateChildren(m, node.children[1], 1, nodeId, newStatus, <<>>) IN
         IF hasChanges(k.ret, node.children[1])
           THEN LET b == Len(k.m.heap) + 1
                    m1 == allocate(k.m, [node EXCEPT !.children = Some(k.ret)])
                IN [m |-> m1, ret |-> b]
           ELSE [m |-> k.m, ret |-> a]
  ELSE [m |-> m, ret |-> a]

\* a variant whose last line is `return { ...node }`
updateNodeRecursive_copyOnMiss(m, a, nodeId, newStatus) ==
  LET node == m.heap[a] IN
  IF node.id = nodeId
    THEN LET b == Len(m.heap) + 1
             m1 == allocate(m, [node EXCEPT !.status = newStatus])
         IN [m |-> assignCalculatedValue(m1, b), ret |-> b]
  ELSE IF node.children # None /\ hasChanges(updateChildren(m, node.children[1], 1, nodeId, newStatus, <<>>).ret, node.children[1])
    THEN LET k == updateChildren(m, node.children[1], 1, nodeId, newStatus, <<>>)
             b == Len(k.m.heap) + 1
             m1 == allocate(k.m, [node EXCEPT !.children = Some(k.ret)])
         IN [m |-> assignCalculatedValue(m1, b), ret |-> b]
  ELSE [m |-> allocate(m, node), ret |-> Len(m.heap) + 1]

\* a variant that derives the target's aggregate from the aggregate stored
\* on it instead of from its value or its children
updateNodeRecursive_fromStored(m, a, nodeId, newStatus) ==
  LET node == m.heap[a] IN
  IF node.id = nodeId
    THEN LET b == Len(m.heap) + 1
             stored == CASE newStatus = "skip" -> 0
                         [] newStatus = "invert" -> 0 - node.calculatedValue
                         [] OTHER -> node.calculatedValue
         IN [m |-> allocate(m, [node EXCEPT !.status = newStatus,
                                            !.calculatedValue = stored]),
             ret |-> b]
  ELSE IF node.children # None
    THEN LET k == updateChildren(m, node.children[1], 1, nodeId, newStatus, <<>>) IN
         IF hasChanges(k.ret, node.children[1])
           THEN LET b == Len(k.m.heap) + 1
                    m1 == allocate(k.m, [node EXCEPT !.children = Some(k.ret)])
                IN [m |-> assignCalculatedValue(m1, b), ret |-> b]
           ELSE [m |-> k.m, ret |-> a]
  ELSE [m |-> m, ret |-> a]

\* node.children.map(child => updateNodeRecursive(child, nodeId, newStatus))
updateChildren(m, kids, i, nodeId, newStatus, acc) ==
  IF i > Len(kids) THEN [m |-> m, ret |-> acc]
  ELSE LET r == updateNodeRecursive(m, kids[i], nodeId, newStatus) IN
       updateChildren(r.m, kids, i + 1, nodeId, newStatus, Append(acc, r.ret))

updateNodeRecursive(m, a, nodeId, newStatus) ==
  LET node == m.heap[a] IN
  IF node.id = nodeId
    THEN LET b == Len(m.heap) + 1
             m1 == allocate(m, [node EXCEPT !.status = newStatus])
         IN [m |-> assignCalculatedValue(m1, b), ret |-> b]
  ELSE IF node.children # None
    THEN LET k == updateChildren(m, node.children[1], 1, nodeId, newStatus, <<>>) IN
         IF hasChanges(k.ret, node.children[1])
           THEN LET b == Len(k.m.heap) + 1
                    m1 == allocate(k.m, [node EXCEPT !.children = Some(k.ret)])
                IN [m |-> assignCalculatedValue(m1, b), ret |-> b]
           ELSE [m |-> k.m, ret |-> a]
  ELSE [m |-> m, ret |-> a]

updateNodeStatus(m, rootNode, nodeId, newStatus) ==
  updateNodeRecursive(m, rootNode, nodeId, newStatus)

----------------------------------------------------------------------------
(* recalculateTree *)

RECURSIVE recalculateNodeRecursive(_, _)
RECURSIVE recalculateChildren(_, _, _, _)

\* a variant that adds the new aggregate to the one the object came with
recalculateNodeRecursive_accumulate(m, a) ==
  LET node == m.heap[a]
      k == recalculateChildren(m, childrenOrEmpty(node), 1, <<>>)
      b == Len(k.m.heap) + 1
      m1 == allocate(k.m, IF node.children # None
                            THEN [node EXCEPT !.children = Some(k.ret)] ELSE node)
      m2 == assignCalculatedValue(m1, b)
  IN [m |-> [m2 EXCEPT !.heap[b].calculatedValue = node.calculatedValue + @], ret |-> b]

\* a variant that copies a node without children as it is
recalculateNodeRecursive_leafKept(m, a) ==
  LET node == m.heap[a] IN
  IF node.children # None
    THEN LET k == recalculateChildren(m, node.children[1], 1, <<>>)
             b == Len(k.m.heap) + 1
             m1 == allocate(k.m, [node EXCEPT !.children = Some(k.ret)])
         IN [m |-> assignCalculatedValue(m1, b), ret |-> b]
    ELSE [m |-> allocate(m, node), ret |-> Len(m.heap) + 1]

\* node.children.map(recalculateNodeRecursive)
recalculateChildren(m, kids, i, acc) ==
  IF i > Len(kids) THEN [m |-> m, ret |-> acc]
  ELSE LET r == recalculateNodeRecursive(m, kids[i]) IN
       recalculateChildren(r.m, kids, i + 1, Append(acc, r.ret))

recalculateNodeRecursive(m, a) ==
  LET node == m.heap[a] IN
  IF node.children # None
    THEN LET k == recalculateChildren(m, node.children[1], 1, <<>>)
             b == Len(k.m.heap) + 1
             m1 == allocate(k.m, [node EXCEPT !.children = Some(k.ret)])
         IN [m |-> assignCalculatedValue(m1, b), ret |-> b]
    ELSE LET b == Len(m.heap) + 1
             m1 == allocate(m, node)
         IN [m |-> assignCalculatedValue(m1, b), ret |-> b]

\* a variant that starts the pass on the cache as it finds it
recalculateTree_keepsCache(m, node) == recalculateNodeRecursive(m, node)

recalculateTree(m, node) ==
  recalculateNodeRecursive(
    Logged([m EXCEPT !.cache = LRUCache_clear(@)], "clear", ""), node)

----------------------------------------------------------------------------
(* applyBulkOperation *)

RECURSIVE applyToSubtree(_, _, _)
RECURSIVE applyToChildren(_, _, _, _, _)

\* a variant that sets the status of the target only
applyToSubtree_shallow(m, a, operation) ==
  LET node == m.heap[a]
      b == Len(m.heap) + 1
      m1 == allocate(m, [node EXCEPT !.status = operation])
  IN [m |-> assignCalculatedValue(m1, b), ret |-> b]

\* node.children.map(child => applyToSubtree(child, operation))
applyToChildren(m, kids, i, operation, acc) ==
  IF i > Len(kids) THEN [m |-> m, ret |-> acc]
  ELSE LET r == applyToSubtree(m, kids[i], operation) IN
       applyToChildren(r.m, kids, i + 1, operation, Append(acc, r.ret))

applyToSubtree(m, a, operation) ==
  LET node == m.heap[a]
      b == Len(m.heap) + 1
      m1 == allocate(m, [node EXCEPT !.status = operation])
  IN IF node.children # None
       THEN LET k == applyToChildren(m1, node.children[1], 1, operation, <<>>)
                m2 == [k.m EXCEPT !.heap[b].children = Some(k.ret)]
            IN [m |-> assignCalculatedValue(m2, b), ret |-> b]
       ELSE [m |-> assignCalculatedValue(m1, b), ret |-> b]

RECURSIVE applyBulkOperationRecursive(_, _, _, _)
RECURSIVE applyBulkChildren(_, _, _, _, _, _)

\* a variant that leaves the aggregate of the ancestors as it was
applyBulkOperationRecursive_staleAncestors(m, a, nodeId, operation) ==
  LET node == m.heap[a] IN
  IF node.id = nodeId
    THEN applyToSubtree(m, a, operation)
  ELSE IF node.children # None
    THEN LET k == applyBulkChildren(m, node.children[1], 1, nodeId, operation, <<>>) IN
         IF hasChanges(k.ret, node.children[1])
           THEN LET b == Len(k.m.heap) + 1
                    m1 == allocate(k.m, [node EXCEPT !.children = Some(k.ret)])
                IN [m |-> m1, ret |-> b]
           ELSE [m |-> k.m, ret |-> a]
  ELSE [m |-> m, ret |-> a]

\* node.children.map(child => applyBulkOperationRecursive(child, nodeId, operation))
applyBulkChildren(m, kids, i, nodeId, operation, acc) ==
  IF i > Len(kids) THEN [m |-> m, ret |-> acc]
  ELSE LET r == applyBulkOperationRecursive(m, kids[i], nodeId, operation) IN
       applyBulkChildren(r.m, kids, i + 1, nodeId, operation, Append(acc, r.ret))

applyBulkOperationRecursive(m, a, nodeId, operation) ==
  LET node == m.heap[a] IN
  IF node.id = nodeId
    THEN applyToSubtree(m, a, operation)
  ELSE IF node.children # None
    THEN LET k == applyBulkChildren(m, node.children[1], 1, nodeId, operation, <<>>) IN
         IF hasChanges(k.ret, node.children[1])
           THEN LET b == Len(k.m.heap) + 1
                    m1 == allocate(k.m, [node EXCEPT !.children = Some(k.ret)])
                IN [m |-> assignCalculatedValue(m1, b), ret |-> b]
           ELSE [m |-> k.m, ret |-> a]
  ELSE [m |-> m, ret |-> a]

applyBulkOperation(m, rootNode, nodeId, operation) ==
  applyBulkOperationRecursive(m, rootNode, nodeId, operation)

----------------------------------------------------------------------------
(* The raw trees handed to the engine.  A shape gives, for each node in    *)
(* document order, the index of its parent (0 for the root), the nodes     *)
(* whose children array is present but empty, and the value and status     *)
(* fields of each node.                                                    *)

NodeIds == <<"root", "q3", "q4", "jul", "aug">>

\* an id that no node carries
AbsentId == "dec"

Shapes ==
  { \* root { q3 { jul, aug }, q4 }
    [parent |-> <<0, 1, 1, 2, 2>>, empty |-> {},
     value |-> <<None, None, Some(7), Some(3), Some(5)>>,
     status |-> <<"normal", "normal", "normal", "normal", "normal">>],
    \* the same tree with other values, under a skipped root
    [parent |-> <<0, 1, 1, 2, 2>>, empty |-> {},
     value |-> <<None, None, Some(2), Some(0), Some(8)>>,
     status |-> <<"skip", "invert", "normal", "normal", "invert">>],
    \* root { q3 { q4 { jul } } }, q3 with a value of its own
    [parent |-> <<0, 1, 2, 3>>, empty |-> {},
     value |-> <<None, Some(9), None, Some(4)>>,
     status |-> <<"invert", "normal", "normal", "invert">>],
    \* root { q3 [], q4 { jul } }, jul without a value
    [parent |-> <<0, 1, 1, 3>>, empty |-> {2},
     value |-> <<None, Some(6), None, None>>,
     status |-> <<"normal", "invert", "skip", "normal">>] }

Size(shape) == Len(shape.parent)

\* the calculatedValue fields of a raw tree hold anything: the literals of
\* sampleData hold 0, the second raw tree holds other numbers
InputCalculated == {0}

RECURSIVE depthOf(_, _)
depthOf(shape, i) ==
  IF shape.parent[i] = 0 THEN 0 ELSE 1 + depthOf(shape, shape.parent[i])

childrenOf(shape, i) ==
  SelectSeq([j \in 1..Size(shape) |-> j], LAMBDA j : shape.parent[j] = i)

\* The objects of one raw tree, the root at address base + 1.
RawTreeOf(ids, shape, cv, base) ==
  [i \in 1..Size(shape) |->
     [id |-> ids[i],
      name |-> ids[i],
      value |-> shape.value[i],
      children |->
        IF childrenOf(shape, i) # <<>>
          THEN Some([k \in 1..Len(childrenOf(shape, i)) |-> base + childrenOf(shape, i)[k]])
        ELSE IF i \in shape.empty THEN Some(<<>>)
        ELSE None,
      status |-> shape.status[i],
      calculatedValue |-> IF base = 0 THEN cv ELSE cv + 10 + i,
      depth |-> depthOf(shape, i)]]

RawTree(shape, cv, base) == RawTreeOf(NodeIds, shape, cv, base)

----------------------------------------------------------------------------
(* The engine as a state machine: one action per exported function.        *)

Call(fn, rootNode, nodeId, status, base, r) ==
  [fn |-> fn, rootNode |-> rootNode, nodeId |-> nodeId, status |-> status,
   base |-> base, ret |-> r.ret, log |-> r.m.log]

Last(s) == s[Len(s)]

\* The state after r, the result of a call made on the machine of the
\* state, and rs, the result of the same call on the shadow machine.
Returned(fn, rootNode, nodeId, status, r, rs) ==
  /\ heap' = r.m.heap
  /\ cache' = r.m.cache
  /\ calls' = Append(calls, Call(fn, rootNode, nodeId, status, Len(heap), r))
  /\ shadow' = [m |-> [rs.m EXCEPT !.log = <<>>], rets |-> Append(shadow.rets, rs.ret)]
  /\ UNCHANGED store

\* Two raw trees that differ in their calculatedValue fields only, and the
\* full pass over the first (useHierarchy: useState(() => recalculateTree(initialData))).
Init ==
  \E shape \in Shapes : \E cv \in InputCalculated :
    LET raw == RawTree(shape, cv, 0) \o RawTree(shape, cv, Size(shape))
        r == recalculateTree(Machine(raw, <<>>, "lru"), 1)
        rs == recalculateTree(Machine(raw, <<>>, "miss"), 1)
    IN /\ heap = r.m.heap
       /\ cache = r.m.cache
       /\ calls = <<Call("recalculateTree", 1, "", "", Len(raw), r)>>
       /\ shadow = [m |-> [rs.m EXCEPT !.log = <<>>], rets |-> <<rs.ret>>]
       /\ store = initialStore

current == Last(calls).ret

TargetIds == {heap[a].id : a \in 1..Len(heap)} \cup {AbsentId}

\* the root of the second raw tree
secondRaw == calls[1].base \div 2 + 1

\* resetHierarchy(newData): newData is a raw tree or the tree on display
RecalculateTree ==
  /\ Len(calls) <= MaxCalls
  /\ \/ Returned("recalculateTree", secondRaw, "", "",
                 recalculateTree(Machine(heap, cache, "lru"), secondRaw),
                 recalculateTree(shadow.m, secondRaw))
     \/ Returned("recalculateTree", current, "", "",
                 recalculateTree(Machine(heap, cache, "lru"), current),
                 recalculateTree(shadow.m, Last(shadow.rets)))

UpdateNodeStatus ==
  /\ Len(calls) <= MaxCalls
  /\ \E nodeId \in TargetIds : \E newStatus \in Statuses :
       Returned("updateNodeStatus", current, nodeId, newStatus,
                updateNodeStatus(Machine(heap, cache, "lru"), current, nodeId, newStatus),
                updateNodeStatus(shadow.m, Last(shadow.rets), nodeId, newStatus))

ApplyBulkOperation ==
  /\ Len(calls) <= MaxCalls
  /\ \E nodeId \in TargetIds : \E operation \in Statuses :
       Returned("applyBulkOperation", current, nodeId, operation,
                applyBulkOperation(Machine(heap, cache, "lru"), current, nodeId, operation),
                applyBulkOperation(shadow.m, Last(shadow.rets), nodeId, operation))

Next == RecalculateTree \/ UpdateNodeStatus \/ ApplyBulkOperation

Spec == Init /\ [][Next]_vars

----------------------------------------------------------------------------
(* Vocabulary of the properties: trees as they lie in the heap, and the    *)
(* aggregate a node must carry, written from the rules of the resolver.    *)

childrenList(h, a) == childrenOrEmpty(h[a])

RECURSIVE Nodes(_, _)
Nodes(h, a) ==
  {a} \cup UNION {Nodes(h, childrenList(h, a)[i]) : i \in 1..Len(childrenList(h, a))}

TreeIds(h, a) == {h[x].id : x \in Nodes(h, a)}

NodeOf(h, a, id) == CHOOSE x \in Nodes(h, a) : h[x].id = id

\* the nodes from the root a down to the node that carries id, both included
PathTo(h, a, id) == {x \in Nodes(h, a) : id \in TreeIds(h, x)}

Signed(status, x) ==
  IF status = "skip" THEN 0 ELSE IF status = "invert" THEN 0 - x ELSE x

RECURSIVE SumCalculated(_, _, _)
SumCalculated(h, kids, n) ==
  IF n = 0 THEN 0 ELSE SumCalculated(h, kids, n - 1) + h[kids[n]].calculatedValue

ResolverInputs(h, a) ==
  IF childrenList(h, a) = <<>>
    THEN (IF h[a].value = None THEN 0 ELSE h[a].value[1])
    ELSE SumCalculated(h, childrenList(h, a), Len(childrenList(h, a)))

Resolved(h, a) == h[a].calculatedValue = Signed(h[a].status, ResolverInputs(h, a))

ResolvedTree(h, a) == \A x \in Nodes(h, a) : Resolved(h, x)

\* call k edits a tree; its target exists in the tree passed in
IsEdit(k) == calls[k].fn \in {"updateNodeStatus", "applyBulkOperation"}

Found(k) == calls[k].nodeId \in TreeIds(heap, calls[k].rootNode)

IsUpdate(k) == calls[k].fn = "updateNodeStatus" /\ Found(k)

IsBulk(k) == calls[k].fn = "applyBulkOperation" /\ Found(k)

IsRecalc(k) == calls[k].fn = "recalculateTree"

\* The call that has just returned: every call is the latest one in the
\* state it leads to, and the properties examine it there.
Latest == {Len(calls)}

Updates == {k \in Latest : IsUpdate(k)}

Bulks == {k \in Latest : IsBulk(k)}

Recalcs == {k \in Latest : IsRecalc(k)}

\* the objects allocated by call k
Allocated(k) ==
  (calls[k].base + 1) .. (IF k = Len(calls) THEN Len(heap) ELSE calls[k + 1].base)

\* for call k: the target in the tree passed in, its ancestors there, its subtree
Target(k) == NodeOf(heap, calls[k].rootNode, calls[k].nodeId)

PathIds(k) == {heap[x].id : x \in PathTo(heap, calls[k].rootNode, calls[k].nodeId)}

SubtreeIds(k) == TreeIds(heap, Target(k))

----------------------------------------------------------------------------
(* C1: every node of every tree the engine returns carries the             *)
(* aggregate the resolver gives for its status and its inputs: value or 0  *)
(* for a leaf, the sum of the calculatedValue fields stored on its         *)
(* children for an internal node.                                          *)
C1_EveryReturnedTreeResolved ==
  \A k \in Latest : ResolvedTree(heap, calls[k].ret)

\* an edit below an inverted root, after a bulk edit, changed the root's aggregate
C1_Witness ==
  /\ Len(calls) = 3
  /\ IsBulk(2)
  /\ IsUpdate(3)
  /\ calls[3].nodeId # heap[calls[3].rootNode].id
  /\ heap[calls[3].ret].status = "invert"
  /\ heap[calls[3].ret].calculatedValue # heap[calls[3].rootNode].calculatedValue

----------------------------------------------------------------------------
(* C2: locality by reference.  After updateNodeStatus every object of the  *)
(* tree passed in that is not on the path from the root to the target is   *)
(* an object of the tree returned, the target's children included, and the *)
(* objects allocated are one per node of the path; after                   *)
(* applyBulkOperation the same holds with the target's subtree added to    *)
(* the path.                                                               *)
C2_LocalityByReference ==
  /\ \A k \in Updates :
       /\ \A x \in Nodes(heap, calls[k].rootNode) :
            heap[x].id \notin PathIds(k) => x \in Nodes(heap, calls[k].ret)
       /\ heap[NodeOf(heap, calls[k].ret, calls[k].nodeId)].children
            = heap[Target(k)].children
       /\ Nodes(heap, calls[k].ret) \ Nodes(heap, calls[k].rootNode) = Allocated(k)
       /\ {heap[x].id : x \in Allocated(k)} = PathIds(k)
       /\ Cardinality(Allocated(k)) = Cardinality(PathIds(k))
  /\ \A k \in Bulks :
       /\ \A x \in Nodes(heap, calls[k].rootNode) :
            heap[x].id \notin PathIds(k) \cup SubtreeIds(k)
              => x \in Nodes(heap, calls[k].ret)
       /\ Nodes(heap, calls[k].ret) \ Nodes(heap, calls[k].rootNode) = Allocated(k)
       /\ {heap[x].id : x \in Allocated(k)} = PathIds(k) \cup SubtreeIds(k)
       /\ Cardinality(Allocated(k)) = Cardinality(PathIds(k) \cup SubtreeIds(k))

\* an update of an internal node that has a sibling, and a bulk edit of a
\* node that has a sibling with children of its own
C2_Witness ==
  /\ Len(calls) = 3
  /\ IsUpdate(2)
  /\ childrenList(heap, Target(2)) # <<>>
  /\ Cardinality(PathIds(2)) = 2
  /\ Cardinality(TreeIds(heap, calls[2].rootNode)) = 5
  /\ IsBulk(3)
  /\ Cardinality(PathIds(3)) = 2
  /\ Cardinality(SubtreeIds(3)) = 1

----------------------------------------------------------------------------
(* C3: an edit whose target id no node of the tree carries returns the     *)
(* root it was given, allocates nothing and changes no object.             *)
C3_UnknownIdIsNoOp ==
  [][ (/\ Last(calls').fn \in {"updateNodeStatus", "applyBulkOperation"}
       /\ Last(calls').nodeId \notin TreeIds(heap, Last(calls').rootNode))
      => (/\ Last(calls').ret = Last(calls').rootNode
          /\ heap' = heap) ]_vars

\* both edits were called with an id that is absent
C3_Witness ==
  /\ Len(calls) = 3
  /\ calls[2].fn = "updateNodeStatus" /\ ~Found(2)
  /\ calls[3].fn = "applyBulkOperation" /\ ~Found(3)
  /\ calls[3].ret = calls[1].ret

----------------------------------------------------------------------------
(* C4: after applyBulkOperation with a target that exists, every node of   *)
(* the target's subtree has the status of the operation and every other    *)
(* node has the status it had in the tree passed in.                       *)
C4_BulkSetsSubtreeStatus ==
  \A k \in Bulks :
    /\ TreeIds(heap, calls[k].ret) = TreeIds(heap, calls[k].rootNode)
    /\ \A x \in Nodes(heap, calls[k].ret) :
         heap[x].status =
           IF heap[x].id \in SubtreeIds(k) THEN calls[k].status
           ELSE heap[NodeOf(heap, calls[k].rootNode, heap[x].id)].status

\* a bulk edit of a node with children whose statuses differed from the
\* operation, below a root that is not normal
C4_Witness ==
  \E k \in Bulks :
    /\ Cardinality(SubtreeIds(k)) = 3
    /\ \A x \in Nodes(heap, Target(k)) : heap[x].status # calls[k].status
    /\ heap[calls[k].rootNode].status \notin {"normal", calls[k].status}

----------------------------------------------------------------------------
(* C5: after applyBulkOperation(t, id, 'skip') on a resolved tree every    *)
(* node of the subtree of id has calculatedValue 0 and every ancestor of   *)
(* id carries its status applied to the sum of its children's new          *)
(* calculatedValues.                                                       *)
C5_BulkSkipPropagates ==
  \A k \in Bulks :
    (calls[k].status = "skip" /\ ResolvedTree(heap, calls[k].rootNode)) =>
      \A x \in Nodes(heap, calls[k].ret) :
        /\ heap[x].id \in SubtreeIds(k) => heap[x].calculatedValue = 0
        /\ heap[x].id \in PathIds(k) => Resolved(heap, x)

\* a bulk skip of a subtree that contributed to the aggregate of the root
C5_Witness ==
  \E k \in Bulks :
    /\ calls[k].status = "skip"
    /\ Cardinality(SubtreeIds(k)) = 3
    /\ heap[Target(k)].calculatedValue # 0
    /\ heap[calls[k].ret].calculatedValue # heap[calls[k].rootNode].calculatedValue
    /\ heap[calls[k].ret].calculatedValue # 0

----------------------------------------------------------------------------
(* Two trees of the heap compared node for node, whatever the addresses of *)
(* their objects: every field and the order of the children (SameTree),    *)
(* or every field but calculatedValue (SameRaw).                           *)

RECURSIVE SameTree(_, _, _)
SameTree(h, a, b) ==
  /\ [h[a] EXCEPT !.children = None] = [h[b] EXCEPT !.children = None]
  /\ (h[a].children = None) = (h[b].children = None)
  /\ Len(childrenList(h, a)) = Len(childrenList(h, b))
  /\ \A i \in 1..Len(childrenList(h, a)) :
       SameTree(h, childrenList(h, a)[i], childrenList(h, b)[i])

RECURSIVE SameRaw(_, _, _)
SameRaw(h, a, b) ==
  /\ [h[a] EXCEPT !.children = None, !.calculatedValue = 0]
       = [h[b] EXCEPT !.children = None, !.calculatedValue = 0]
  /\ (h[a].children = None) = (h[b].children = None)
  /\ Len(childrenList(h, a)) = Len(childrenList(h, b))
  /\ \A i \in 1..Len(childrenList(h, a)) :
       SameRaw(h, childrenList(h, a)[i], childrenList(h, b)[i])

\* call k sets a node to skip and call k + 1 sets the same node to normal
Toggles ==
  {k \in 1..(Len(calls) - 1) :
     /\ IsUpdate(k)
     /\ k + 1 \in Updates
     /\ calls[k].status = "skip"
     /\ calls[k + 1].status = "normal"
     /\ calls[k + 1].nodeId = calls[k].nodeId
     /\ ResolvedTree(heap, calls[k].rootNode)}

\* the target of call k and its ancestors have, after call k + 1, the
\* calculatedValue they had before call k
Restored(k) ==
  \A x \in PathTo(heap, calls[k].rootNode, calls[k].nodeId) :
    heap[NodeOf(heap, calls[k + 1].ret, heap[x].id)].calculatedValue
      = heap[x].calculatedValue

----------------------------------------------------------------------------
(* C6, as claimed: setting a node of a resolved tree to skip and then to   *)
(* normal gives the node and its ancestors the calculatedValue they had.   *)
C6_ToggleRoundTrip_AnyStatus == \A k \in Toggles : Restored(k)

(* C6, amended: setting a node of a resolved tree whose status is normal   *)
(* to skip and then to normal gives the node and its ancestors the         *)
(* calculatedValue they had.                                               *)
C6_ToggleRoundTrip ==
  \A k \in Toggles : heap[Target(k)].status = "normal" => Restored(k)

\* a normal node below the root, with a non-zero aggregate, was toggled
C6_Witness ==
  \E k \in Toggles :
    /\ heap[Target(k)].status = "normal"
    /\ heap[Target(k)].calculatedValue # 0
    /\ Target(k) # calls[k].rootNode
    /\ heap[calls[k].ret].calculatedValue # heap[calls[k].rootNode].calculatedValue

----------------------------------------------------------------------------
(* C7: the objects allocated and the roots returned by any sequence of     *)
(* calls are the same on the LRU cache as on a cache that always misses.   *)
C7_CacheTransparent ==
  /\ shadow.m.heap = heap
  /\ shadow.rets = [k \in 1..Len(calls) |-> calls[k].ret]

\* two edits that found their target ran on a cache that held entries
C7_Witness ==
  /\ Len(calls) = 3
  /\ IsEdit(2) /\ Found(2)
  /\ IsEdit(3) /\ Found(3)
  /\ Len(cache) > Cardinality(TreeIds(heap, calls[1].ret))
  /\ shadow.m.cache = <<>>

----------------------------------------------------------------------------
(* C8: the full pass applied to its own output returns a tree equal to it  *)
(* node for node: id, status, value, calculatedValue and children order.   *)
C8_RecalculateIdempotent ==
  \A k \in Recalcs :
    (k > 1 /\ IsRecalc(k - 1) /\ calls[k].rootNode = calls[k - 1].ret)
      => SameTree(heap, calls[k].ret, calls[k - 1].ret)

\* the full pass ran on its own output, a tree with a non-zero aggregate
\* under a root that is not normal
C8_Witness ==
  \E k \in Recalcs :
    /\ k > 1 /\ IsRecalc(k - 1) /\ calls[k].rootNode = calls[k - 1].ret
    /\ calls[k].ret # calls[k - 1].ret
    /\ heap[calls[k].ret].status = "invert"
    /\ heap[calls[k].ret].calculatedValue # 0

----------------------------------------------------------------------------
(* C9: the full pass over two trees that differ in calculatedValue only    *)
(* returns trees equal node for node, and the tree it returns has the id,  *)
(* name, value, status, depth and children order of the tree passed in.    *)
C9_InputCalculatedValueIgnored ==
  /\ \A k \in Recalcs : \A j \in 1..k :
       (IsRecalc(j) /\ SameRaw(heap, calls[j].rootNode, calls[k].rootNode))
         => SameTree(heap, calls[j].ret, calls[k].ret)
  /\ \A k \in Recalcs : SameRaw(heap, calls[k].rootNode, calls[k].ret)

\* the full pass ran on two raw trees whose calculatedValue fields differ
\* on every node
C9_Witness ==
  \E k \in Recalcs : \E j \in 1..k :
    /\ IsRecalc(j)
    /\ SameRaw(heap, calls[j].rootNode, calls[k].rootNode)
    /\ \A x \in Nodes(heap, calls[j].rootNode) :
         heap[x].calculatedValue
           # heap[NodeOf(heap, calls[k].rootNode, heap[x].id)].calculatedValue
    /\ heap[calls[k].ret].calculatedValue # 0

----------------------------------------------------------------------------
(* The resolver on its own: calculateNodeValue applied to one node, with   *)
(* any status, with or without a value, without children, with an empty    *)
(* children array or with children carrying any aggregates, and to the     *)
(* same node with its children in the reverse order.                       *)

ResolverValues == {None, Some(0), Some(4), Some(-3)}

ChildCalculated == {-2, 0, 5}

ChildIds == <<"jul", "aug", "sep", "oct">>

ResolverChildren ==
  {None} \cup {Some(cvs) : cvs \in UNION {[1..n -> ChildCalculated] : n \in 0..MaxChildren}}

Reverse(seq) == [i \in 1..Len(seq) |-> seq[Len(seq) + 1 - i]]

ResolverHeap(status, value, kids) ==
  LET n == IF kids = None THEN 0 ELSE Len(kids[1])
      child(i) == [id |-> ChildIds[i], name |-> ChildIds[i], value |-> Some(1),
                   children |-> None, status |-> "normal",
                   calculatedValue |-> kids[1][i], depth |-> 1]
      parent(order) == [id |-> "q3", name |-> "q3", value |-> value,
                        children |-> IF kids = None THEN None ELSE Some(order),
                        status |-> status, calculatedValue |-> 0, depth |-> 0]
  IN [i \in 1..n |-> child(i)]
       \o <<parent([i \in 1..n |-> i]), parent(Reverse([i \in 1..n |-> i]))>>

ResolverInit ==
  \E status \in Statuses : \E value \in ResolverValues : \E kids \in ResolverChildren :
    /\ heap = ResolverHeap(status, value, kids)
    /\ cache = <<>>
    /\ calls = <<>>
    /\ shadow = [m |-> Machine(heap, <<>>, "miss"), rets |-> <<>>]
    /\ store = initialStore

CalculateNodeValue ==
  /\ Len(calls) <= MaxCalls
  /\ \E a \in {Len(heap) - 1, Len(heap)} : \E forceRecalculate \in BOOLEAN :
       LET r == calculateNodeValue(Machine(heap, cache, "lru"), heap[a], forceRecalculate)
           rs == calculateNodeValue(shadow.m, heap[a], forceRecalculate)
       IN /\ heap' = r.m.heap
          /\ cache' = r.m.cache
          /\ calls' = Append(calls, [fn |-> "calculateNodeValue", node |-> a,
                                     forceRecalculate |-> forceRecalculate,
                                     ret |-> r.result])
          /\ shadow' = [m |-> [rs.m EXCEPT !.log = <<>>],
                         rets |-> Append(shadow.rets, rs.result)]
          /\ UNCHANGED store

ResolverNext == CalculateNodeValue

ResolverSpec == ResolverInit /\ [][ResolverNext]_vars

\* the calls in which the resolver was made to run
Forced == {k \in 1..Len(calls) : calls[k].forceRecalculate}

\* two nodes that differ in the order of their children only
Permuted(h, a, b) ==
  /\ [h[a] EXCEPT !.children = None] = [h[b] EXCEPT !.children = None]
  /\ (h[a].children = None) = (h[b].children = None)
  /\ Len(childrenList(h, a)) = Len(childrenList(h, b))
  /\ {childrenList(h, a)[i] : i \in 1..Len(childrenList(h, a))}
       = {childrenList(h, b)[i] : i \in 1..Len(childrenList(h, b))}

----------------------------------------------------------------------------
----------------------------------------------------------------------------
(* The sample dataset of sampleData.ts, its values in tenths: a total of   *)
(* two quarters of three months each, every status normal, the literal's   *)
(* calculatedValue the value on a month and 0 elsewhere.                   *)

SampleIds == <<"root", "q3", "jul", "aug", "sep", "q4", "oct", "nov", "dec">>

SampleShape ==
  [parent |-> <<0, 1, 2, 2, 2, 1, 6, 6, 6>>, empty |-> {},
   value |-> <<None, None, Some(1134), Some(464), Some(427),
               None, Some(1155), Some(248), Some(972)>>,
   status |-> [i \in 1..9 |-> "normal"]]

sampleHierarchy ==
  LET raw == RawTreeOf(SampleIds, SampleShape, 0, 0)
  IN [i \in 1..Size(SampleShape) |->
        [raw[i] EXCEPT !.calculatedValue = valueOrZero(raw[i])]]

\* The sample dataset, a second raw tree that differs from it in
\* calculatedValue, and the full pass over the sample dataset.
SampleInit ==
  LET raw == sampleHierarchy
             \o RawTreeOf(SampleIds, SampleShape, 0, Size(SampleShape))
      r == recalculateTree(Machine(raw, <<>>, "lru"), 1)
      rs == recalculateTree(Machine(raw, <<>>, "miss"), 1)
  IN /\ heap = r.m.heap
     /\ cache = r.m.cache
     /\ calls = <<Call("recalculateTree", 1, "", "", Len(raw), r)>>
     /\ shadow = [m |-> [rs.m EXCEPT !.log = <<>>], rets |-> <<rs.ret>>]
     /\ store = initialStore

SampleSpec == SampleInit /\ [][Next]_vars

\* the calculatedValue of the node that carries id in the tree call k returned
CalculatedAfter(k, id) == heap[NodeOf(heap, calls[k].ret, id)].calculatedValue

IsCall(k, fn, nodeId, status) ==
  /\ k <= Len(calls)
  /\ calls[k].fn = fn
  /\ calls[k].nodeId = nodeId
  /\ calls[k].status = status

----------------------------------------------------------------------------
(* C11: on the sample dataset the full pass gives Q3 = 2025, Q4 = 2375 and *)
(* Total = 4400; updateNodeStatus(tree, 'aug', 'skip') then gives          *)
(* Q3 = 1561 and Total = 3936 and leaves Q4, Oct, Nov and Dec as they      *)
(* were; updateNodeStatus(tree, 'aug', 'invert') after it gives            *)
(* Aug = -464, Q3 = 1097 and Total = 3472.                                 *)
C11_WorkedExample ==
  /\ CalculatedAfter(1, "q3") = 2025
  /\ CalculatedAfter(1, "q4") = 2375
  /\ CalculatedAfter(1, "root") = 4400
  /\ IsCall(2, "updateNodeStatus", "aug", "skip") =>
       /\ CalculatedAfter(2, "q3") = 1561
       /\ CalculatedAfter(2, "root") = 3936
       /\ CalculatedAfter(2, "q4") = 2375
       /\ NodeOf(heap, calls[2].ret, "q4") = NodeOf(heap, calls[1].ret, "q4")
       /\ \A id \in {"oct", "nov", "dec"} :
            /\ NodeOf(heap, calls[2].ret, id) = NodeOf(heap, calls[1].ret, id)
            /\ CalculatedAfter(2, id) = CalculatedAfter(1, id)
  /\ (/\ IsCall(2, "updateNodeStatus", "aug", "skip")
      /\ IsCall(3, "updateNodeStatus", "aug", "invert")) =>
       /\ CalculatedAfter(3, "aug") = 0 - 464
       /\ CalculatedAfter(3, "q3") = 1097
       /\ CalculatedAfter(3, "root") = 3472

\* aug was skipped and then inverted
C11_Witness ==
  /\ IsCall(2, "updateNodeStatus", "aug", "skip")
  /\ IsCall(3, "updateNodeStatus", "aug", "invert")
  /\ heap[NodeOf(heap, calls[3].ret, "aug")].status = "invert"

----------------------------------------------------------------------------
(* C12: recalculateTree, updateNodeStatus and applyBulkOperation write to  *)
(* no object that existed when they were called: every node object of the  *)
(* input tree (and every other object) has the fields it had, children     *)
(* identity and order, status, value and calculatedValue included.         *)
C12_NoInPlaceMutation ==
  [][\A a \in 1..Len(heap) : heap'[a] = heap[a]]_vars

\* an edit returned a tree whose root differs in calculatedValue from the
\* root it was given, which still carries the old calculatedValue
C12_Witness ==
  \E k \in Latest :
    /\ IsEdit(k)
    /\ calls[k].ret # calls[k].rootNode
    /\ calls[k].ret > calls[k].base
    /\ heap[calls[k].ret].calculatedValue # heap[calls[k].rootNode].calculatedValue
    /\ ResolvedTree(heap, calls[k].rootNode)

----------------------------------------------------------------------------
(* class LRUCache on its own: a cache is constructed with a capacity and   *)
(* then receives get, set and clear calls. cache is the Map, first key     *)
(* first; calls[1] is the construction and carries maxSize; heap and       *)
(* shadow play no part.                                                    *)

CacheKeys == {"a", "b", "c"}

CacheValues == {1, 2}

CacheCall(fn, maxSize, key, value, ret) ==
  [fn |-> fn, maxSize |-> maxSize, key |-> key, value |-> value, ret |-> ret]

\* this.maxSize
maxSizeOf == calls[1].maxSize

\* new LRUCache(maxSize)
CacheInit ==
  \E maxSize \in 0..MaxSize :
    /\ heap = <<>>
    /\ cache = <<>>
    /\ calls = <<CacheCall("constructor", maxSize, "", 0, None)>>
    /\ shadow = [m |-> Machine(<<>>, <<>>, "miss"), rets |-> <<>>]
    /\ store = initialStore

Get ==
  /\ Len(calls) <= MaxOps
  /\ \E key \in CacheKeys :
       LET g == LRUCache_get(cache, key) IN
       /\ cache' = g.cache
       /\ calls' = Append(calls, CacheCall("get", maxSizeOf, key, 0, g.value))
  /\ UNCHANGED <<heap, shadow, store>>

Set ==
  /\ Len(calls) <= MaxOps
  /\ \E key \in CacheKeys, value \in CacheValues :
       /\ cache' = LRUCache_set(cache, maxSizeOf, key, value)
       /\ calls' = Append(calls, CacheCall("set", maxSizeOf, key, value, None))
  /\ UNCHANGED <<heap, shadow, store>>

Clear ==
  /\ Len(calls) <= MaxOps
  /\ cache' = LRUCache_clear(cache)
  /\ calls' = Append(calls, CacheCall("clear", maxSizeOf, "", 0, None))
  /\ UNCHANGED <<heap, shadow, store>>

CacheNext == Get \/ Set \/ Clear

CacheSpec == CacheInit /\ [][CacheNext]_vars

\* the keys the cache holds
Keys(c) == {c[i].key : i \in 1..Len(c)}

\* c without the entry of key, the others in their order
Without(c, key) == SelectSeq(c, LAMBDA e : e.key # key)

\* the calls that use key: its sets and its gets that hit
Touches(key) ==
  {k \in 2..Len(calls) :
     /\ calls[k].key = key
     /\ \/ calls[k].fn = "set"
        \/ calls[k].fn = "get" /\ calls[k].ret # None}

LastTouch(key) == CHOOSE k \in Touches(key) : \A j \in Touches(key) : j <= k

\* the key the cache holds whose last use is the oldest
Oldest ==
  CHOOSE key \in Keys(cache) :
    \A other \in Keys(cache) : LastTouch(key) <= LastTouch(other)

\* the call made by the step
Op == calls'[Len(calls')]

Hit == Op.fn = "get" /\ Op.key \in Keys(cache)

Miss == Op.fn = "get" /\ Op.key \notin Keys(cache)

Overwrite == Op.fn = "set" /\ Op.key \in Keys(cache)

Insert == Op.fn = "set" /\ Op.key \notin Keys(cache)

MostRecent(c, key) == c # <<>> /\ c[Len(c)].key = key

\* what a get or a set does to the order when it evicts nothing
Refreshes ==
  /\ Hit =>
       /\ MostRecent(cache', Op.key)
       /\ Op.ret = Some(cache[LRUCache_index(cache, Op.key)].value)
       /\ cache'[Len(cache')].value = cache[LRUCache_index(cache, Op.key)].value
       /\ Without(cache', Op.key) = Without(cache, Op.key)
  /\ Overwrite =>
       /\ MostRecent(cache', Op.key)
       /\ cache'[Len(cache')].value = Op.value
       /\ Without(cache', Op.key) = Without(cache, Op.key)
  /\ Miss => Op.ret = None /\ cache' = cache

\* an insertion removes the entry used least recently and no other
Evicts ==
  /\ MostRecent(cache', Op.key)
  /\ cache # <<>>
  /\ Keys(cache') = (Keys(cache) \ {Oldest}) \cup {Op.key}
  /\ Without(cache', Op.key) = Without(cache, Oldest)

\* C13 as it is written, for every capacity: an insertion into a cache
\* that holds capacity entries removes exactly one entry.
C13_LRUOrdering_AnyCapacity ==
  [][/\ Refreshes
     /\ (Insert /\ Len(cache) = maxSizeOf) => Evicts]_vars

(* C13: a get that hits returns the value and makes the entry the most     *)
(* recently used; a set of a key the cache holds overwrites the value,     *)
(* makes the entry the most recently used and removes nothing; a set of a  *)
(* new key into a cache that holds capacity entries, capacity at least 1,  *)
(* removes the entry whose last hit-get or set is the oldest and no        *)
(* other; a get that misses changes nothing.                               *)
C13_LRUOrdering ==
  [][/\ Refreshes
     /\ (Insert /\ Len(cache) = maxSizeOf /\ maxSizeOf >= 1) => Evicts]_vars

\* a full cache of two entries whose older insertion was used again by a
\* get, and a new key then took the place of the other entry
C13_Witness ==
  /\ Len(calls) = 5
  /\ maxSizeOf = 2
  /\ calls[2].fn = "set" /\ calls[3].fn = "set" /\ calls[2].key # calls[3].key
  /\ calls[4].fn = "get" /\ calls[4].key = calls[2].key /\ calls[4].ret # None
  /\ calls[5].fn = "set" /\ calls[5].key \notin {calls[2].key, calls[3].key}
  /\ Keys(cache) = {calls[2].key, calls[5].key}

----------------------------------------------------------------------------
(* C14: a cache constructed with capacity N never stores more than N       *)
(* entries, whatever get, set and clear calls it receives.                 *)
C14_CacheBounded == Len(cache) <= maxSizeOf

----------------------------------------------------------------------------
(* C15: a cache of capacity 0 never retains an entry: whatever set calls   *)
(* came before, every get returns absent.                                  *)
C15_CapacityZeroAlwaysMisses ==
  maxSizeOf = 0 =>
    \A k \in 2..Len(calls) : calls[k].fn = "get" => calls[k].ret = None

----------------------------------------------------------------------------
\* the positions in the log of call k at which the cache was cleared
Clears(k) == {i \in 1..Len(calls[k].log) : calls[k].log[i].op = "clear"}

\* the cache keys of the objects call k allocated
KeysWritten(k) == {generateCacheKey(heap, heap[a]) : a \in Allocated(k)}

(* C16: recalculateTree clears the cache once, before it evaluates any     *)
(* node, so that on return the cache holds the entries of the nodes of     *)
(* this pass and no other; updateNodeStatus and applyBulkOperation never   *)
(* clear it, so the entries of the call before them are still there.       *)
C16_ClearedOncePerPass ==
  /\ \A k \in Recalcs :
       /\ Clears(k) = {1}
       /\ Len(calls[k].log) > 1
       /\ Keys(cache) = KeysWritten(k)
       /\ \A a \in Allocated(k) :
            \E i \in 1..Len(cache) :
              /\ cache[i].key = generateCacheKey(heap, heap[a])
              /\ cache[i].value = heap[a].calculatedValue
  /\ \A k \in Latest :
       IsEdit(k) =>
         /\ Clears(k) = {}
         /\ KeysWritten(k - 1) \cup KeysWritten(k) \subseteq Keys(cache)

\* an edit wrote an entry and the full pass after it dropped that entry
C16_Witness ==
  /\ Len(calls) = 3
  /\ IsUpdate(2)
  /\ IsRecalc(3)
  /\ KeysWritten(2) \ Keys(cache) # {}

----------------------------------------------------------------------------
(* A tree in which two nodes carry the same id: root { q3 { jul, jul },    *)
(* q3 }. The hook is given it as it is given any other tree.               *)

DuplicateIds == <<"root", "q3", "q3", "jul", "jul">>

DuplicateShape ==
  [parent |-> <<0, 1, 1, 2, 2>>, empty |-> {},
   value |-> <<None, None, Some(7), Some(3), Some(5)>>,
   status |-> <<"normal", "normal", "normal", "normal", "normal">>]

DuplicateInit ==
  LET raw == RawTreeOf(DuplicateIds, DuplicateShape, 0, 0)
             \o RawTreeOf(DuplicateIds, DuplicateShape, 0, Size(DuplicateShape))
      r == recalculateTree(Machine(raw, <<>>, "lru"), 1)
      rs == recalculateTree(Machine(raw, <<>>, "miss"), 1)
  IN /\ heap = r.m.heap
     /\ cache = r.m.cache
     /\ calls = <<Call("recalculateTree", 1, "", "", Len(raw), r)>>
     /\ shadow = [m |-> [rs.m EXCEPT !.log = <<>>], rets |-> <<rs.ret>>]
     /\ store = initialStore

DuplicateSpec == DuplicateInit /\ [][Next]_vars

\* two nodes of the tree at a carry the same id
HasDuplicateIds(h, a) == Cardinality(TreeIds(h, a)) < Cardinality(Nodes(h, a))

(* C17: recalculateTree signals InvalidTree, and returns no tree, when two *)
(* nodes of the tree it is given carry the same id.                        *)
C17_InvalidTreeSignalled ==
  \A k \in Latest :
    (IsRecalc(k) /\ HasDuplicateIds(heap, calls[k].rootNode)) =>
      calls[k].ret \notin 1..Len(heap)

----------------------------------------------------------------------------
\* the nodes of the tree call k returned whose children field is []
EmptyParents(k) ==
  {x \in Nodes(heap, calls[k].ret) : heap[x].children = Some(<<>>)}

\* C18 as it is written: after any of the three operations a node whose
\* children are [] has calculatedValue 0 under normal, whatever its value.
C18_EmptyChildrenIsZero ==
  \A k \in Latest : \A x \in EmptyParents(k) :
    heap[x].status = "normal" => heap[x].calculatedValue = 0

(* C18: after recalculateTree, updateNodeStatus or applyBulkOperation a    *)
(* node whose children are [] carries the aggregate of a leaf: under       *)
(* normal its value, 0 when it has no value; the negated value under       *)
(* invert; 0 under skip.                                                   *)
C18_EmptyChildrenIsLeaf ==
  \A k \in Latest : \A x \in EmptyParents(k) :
    heap[x].calculatedValue =
      Signed(heap[x].status, IF heap[x].value = None THEN 0 ELSE heap[x].value[1])

\* a node with children [] and a value other than 0 is normal in the tree
\* an edit returned
C18_Witness ==
  \E k \in Latest :
    /\ IsEdit(k)
    /\ \E x \in EmptyParents(k) \cap Allocated(k) :
         /\ heap[x].status = "normal"
         /\ heap[x].value \notin {None, Some(0)}
         /\ heap[x].calculatedValue = heap[x].value[1]

----------------------------------------------------------------------------
\* the ids of the children of the node at a, in their order
ChildrenIds(h, a) == [i \in 1..Len(childrenList(h, a)) |-> h[childrenList(h, a)[i]].id]

\* the node at y is the node at x but for status, calculatedValue and the
\* identity of its children
Framed(x, y) ==
  /\ heap[y].id = heap[x].id
  /\ heap[y].name = heap[x].name
  /\ heap[y].value = heap[x].value
  /\ heap[y].depth = heap[x].depth
  /\ (heap[y].children = None) = (heap[x].children = None)
  /\ ChildrenIds(heap, y) = ChildrenIds(heap, x)

(* C19: updateNodeStatus(t, id, s) with id in t returns a tree of the same *)
(* ids in which every node keeps its id, name, value, depth and the order  *)
(* of its children; the node that carries id has status s, the children    *)
(* it had in t (the same objects) and the aggregate the resolver gives     *)
(* for s and those children's stored calculatedValue; every other node,    *)
(* ancestor or descendant of the target or neither, keeps its status.      *)
C19_UpdateFrame ==
  \A k \in Updates :
    LET t == calls[k].rootNode
        u == calls[k].ret
    IN /\ TreeIds(heap, u) = TreeIds(heap, t)
       /\ Cardinality(Nodes(heap, u)) = Cardinality(Nodes(heap, t))
       /\ \A id \in TreeIds(heap, t) :
            LET x == NodeOf(heap, t, id)
                y == NodeOf(heap, u, id)
            IN /\ Framed(x, y)
               /\ heap[y].status =
                    IF id = calls[k].nodeId THEN calls[k].status ELSE heap[x].status
               /\ id = calls[k].nodeId =>
                    /\ heap[y].children = heap[x].children
                    /\ heap[y].calculatedValue =
                         Signed(calls[k].status, ResolverInputs(heap, x))

\* an inner node below the root, with children that are not all normal,
\* was given another status
C19_Witness ==
  \E k \in Updates :
    LET x == Target(k) IN
    /\ x # calls[k].rootNode
    /\ childrenList(heap, x) # <<>>
    /\ \E i \in 1..Len(childrenList(heap, x)) :
         heap[childrenList(heap, x)[i]].status # "normal"
    /\ heap[x].status # calls[k].status
    /\ heap[NodeOf(heap, calls[k].ret, calls[k].nodeId)].calculatedValue
         # heap[x].calculatedValue

----------------------------------------------------------------------------
\* how many times call k invoked calculateNodeValue for the node that
\* carries id
Invocations(k, id) ==
  Cardinality({i \in 1..Len(calls[k].log) :
                 /\ calls[k].log[i].op = "calculateNodeValue"
                 /\ calls[k].log[i].id = id})

\* call k invoked calculateNodeValue once for each id of ids and for no
\* other node
InvokedOnceFor(k, ids) ==
  /\ \A id \in ids : Invocations(k, id) = 1
  /\ \A i \in 1..Len(calls[k].log) :
       /\ calls[k].log[i].op \in {"calculateNodeValue", "resolve"}
       /\ calls[k].log[i].id \in ids

(* C20: updateNodeStatus(t, id, s) invokes calculateNodeValue once for the *)
(* target and once for each of its ancestors and for no other node;        *)
(* applyBulkOperation(t, id, op) invokes it once for each node of the      *)
(* target's subtree and once for each ancestor of the target and for no    *)
(* other node; either of them invokes it for no node when id is not in t.  *)
C20_OnlyAffectedRecalculated ==
  /\ \A k \in Updates : InvokedOnceFor(k, PathIds(k))
  /\ \A k \in Bulks : InvokedOnceFor(k, PathIds(k) \cup SubtreeIds(k))
  /\ \A k \in Latest : (IsEdit(k) /\ ~Found(k)) => calls[k].log = <<>>

\* a bulk edit of an inner node below the root, in a tree that has nodes
\* outside the path and the subtree
C20_Witness ==
  \E k \in Bulks :
    /\ Target(k) # calls[k].rootNode
    /\ childrenList(heap, Target(k)) # <<>>
    /\ TreeIds(heap, calls[k].rootNode) \ (PathIds(k) \cup SubtreeIds(k)) # {}
    /\ \A id \in PathIds(k) \cup SubtreeIds(k) : Invocations(k, id) = 1

----------------------------------------------------------------------------
\* the runs of calculateLeafValue or calculateParentValue in call k for
\* a node whose key the cache held when the node was evaluated
Recomputed(k) ==
  {i \in 1..Len(calls[k].log) :
     calls[k].log[i].op = "resolve" /\ calls[k].log[i].stored}

(* C21: when recalculateTree, updateNodeStatus or applyBulkOperation       *)
(* evaluates a node whose cache key is stored in the cache, it returns the *)
(* stored aggregate and does not run calculateLeafValue or                 *)
(* calculateParentValue for that node.                                     *)
C21_StoredKeyNotRecomputed == \A k \in Latest : Recomputed(k) = {}

----------------------------------------------------------------------------
(* Two parents whose cache keys are the same string although their ids,    *)
(* statuses and children differ: id "a-" + s2 with status s1 and a child   *)
(* "c", and id "a" with status s2 and a child s1 + "-c". Both children     *)
(* carry the same calculatedValue. calculateNodeValue is applied to the    *)
(* two parents, forced or not.                                             *)

KeyHeap(s1, s2, cv) ==
  LET child(id) == [id |-> id, name |-> id, value |-> Some(1), children |-> None,
                    status |-> "normal", calculatedValue |-> cv, depth |-> 1]
      parent(id, status, kid) ==
                   [id |-> id, name |-> id, value |-> None, children |-> Some(<<kid>>),
                    status |-> status, calculatedValue |-> 0, depth |-> 0]
  IN <<child("c"), child(s1 \o "-c"),
       parent("a-" \o s2, s1, 1), parent("a", s2, 2)>>

KeyInit ==
  \E s1 \in Statuses : \E s2 \in Statuses : \E cv \in ChildCalculated :
    /\ heap = KeyHeap(s1, s2, cv)
    /\ cache = <<>>
    /\ calls = <<>>
    /\ shadow = [m |-> Machine(heap, <<>>, "miss"), rets |-> <<>>]
    /\ store = initialStore

KeySpec == KeyInit /\ [][ResolverNext]_vars

(* C22: in every cache state, calculateNodeValue(node) without             *)
(* forceRecalculate returns what calculateNodeValue(node, true) returns:   *)
(* the resolver's result for the node.                                     *)
C22_CacheSound ==
  \A k \in 1..Len(calls) :
    calls[k].ret
      = calculateNodeValue(Machine(heap, cache, "lru"), heap[calls[k].node], TRUE).result

----------------------------------------------------------------------------
(* useHierarchyStore: setHierarchyData runs the full pass at once;         *)
(* updateNodeStatus and applyBulkOperation read hierarchyData, set         *)
(* isCalculating and hand requestAnimationFrame a callback that holds the  *)
(* tree they read. An animation frame runs the callbacks requested before  *)
(* it, oldest first, with no call of the store between them; each          *)
(* callback's set is a state of its own. calls lists the calls made on the *)
(* store.                                                                  *)

\* two datasets the application loads
StoreIds == <<"massive-root", "region-0", "region-1">>

StoreShape ==
  [parent |-> <<0, 1, 1>>, empty |-> {},
   value |-> <<None, Some(4), Some(9)>>,
   status |-> <<"normal", "normal", "invert">>]

StoreRaw ==
  LET shape == CHOOSE sh \in Shapes : \A i \in 1..Size(sh) : sh.status[i] = "normal"
  IN RawTree(shape, 0, 0) \o RawTreeOf(StoreIds, StoreShape, 0, Size(shape))

\* the roots of the two datasets
StoreDatasets == {1, Len(StoreRaw) - Size(StoreShape) + 1}

\* the ids and statuses the user edits with
StoreTargets == {"jul", "q4", "region-0"}

StoreStatuses == {"skip", "invert"}

StoreCall(fn, data, nodeId, status) ==
  [fn |-> fn, data |-> data, nodeId |-> nodeId, status |-> status]

StoreInit ==
  /\ heap = StoreRaw
  /\ cache = <<>>
  /\ calls = <<>>
  /\ shadow = [m |-> Machine(<<>>, <<>>, "miss"), rets |-> <<>>]
  /\ store = initialStore

\* a call of the store can be made: no animation frame is in progress
Callable == Len(calls) <= MaxCalls /\ store.running = 0

Store_setHierarchyData ==
  /\ Callable
  /\ \E data \in StoreDatasets :
       LET r == recalculateTree(Machine(heap, cache, "lru"), data) IN
       /\ heap' = r.m.heap
       /\ cache' = r.m.cache
       /\ store' = [store EXCEPT !.hierarchyData = Some(r.ret),
                                 !.expandedNodes = {heap[data].id},
                                 !.selectedNode = None]
       /\ calls' = Append(calls, StoreCall("setHierarchyData", data, "", ""))
  /\ UNCHANGED shadow

\* the part updateNodeStatus and applyBulkOperation of the store share:
\* return when there is no tree, else set isCalculating and request an
\* animation frame for the edit of the tree just read
Requested(fn, nodeId, status) ==
  /\ store' = IF store.hierarchyData = None THEN store
              ELSE [store EXCEPT !.isCalculating = TRUE,
                                 !.calculationProgress = 0,
                                 !.frames = Append(@, [fn |-> fn,
                                                       hierarchyData |-> store.hierarchyData[1],
                                                       nodeId |-> nodeId,
                                                       status |-> status])]
  /\ calls' = Append(calls, StoreCall(fn, 0, nodeId, status))
  /\ UNCHANGED <<heap, cache, shadow>>

Store_updateNodeStatus ==
  /\ Callable
  /\ \E nodeId \in StoreTargets : \E status \in StoreStatuses :
       Requested("updateNodeStatus", nodeId, status)

Store_applyBulkOperation ==
  /\ Callable
  /\ \E nodeId \in StoreTargets : \E operation \in StoreStatuses :
       Requested("applyBulkOperation", nodeId, operation)

\* a variant that writes the status on a copy of the root it holds and
\* calls no engine function
callbackResult_statusOnly(m, callback) ==
  [m |-> allocate(m, [m.heap[callback.hierarchyData] EXCEPT !.status = callback.status]),
   ret |-> Len(m.heap) + 1]

\* the edit a callback makes, on the tree it holds
callbackResult(m, callback) ==
  IF callback.fn = "updateNodeStatus"
    THEN updateNodeStatus(m, callback.hierarchyData, callback.nodeId, callback.status)
    ELSE applyBulkOperation(m, callback.hierarchyData, callback.nodeId, callback.status)

\* the browser runs the oldest callback: the first of a new animation
\* frame, or the next of the frame in progress
AnimationFrame ==
  /\ store.frames # <<>>
  /\ LET r == callbackResult(Machine(heap, cache, "lru"), Head(store.frames))
         remaining == IF store.running = 0 THEN Len(store.frames) ELSE store.running
     IN /\ heap' = r.m.heap
        /\ cache' = r.m.cache
        /\ store' = [store EXCEPT !.hierarchyData = Some(r.ret),
                                  !.isCalculating = FALSE,
                                  !.calculationProgress = 100,
                                  !.frames = Tail(@),
                                  !.running = remaining - 1]
  /\ UNCHANGED <<calls, shadow>>

StoreNext ==
  \/ Store_setHierarchyData
  \/ Store_updateNodeStatus
  \/ Store_applyBulkOperation
  \/ AnimationFrame

StoreSpec == StoreInit /\ [][StoreNext]_vars

----------------------------------------------------------------------------
\* the tree the store shows
shown == store.hierarchyData[1]

\* the status, in the tree shown, of the node that carries id
ShownStatus(id) == heap[NodeOf(heap, shown, id)].status

(* C23: in every state of the store, whatever the order of its calls and   *)
(* of the animation frames, hierarchyData is null or a tree in which every *)
(* node carries the aggregate the resolver gives for its status and the    *)
(* calculatedValue stored on its children.                                 *)
C23_StoreShowsResolvedTree ==
  store.hierarchyData = None \/ ResolvedTree(heap, shown)

\* two edits were requested before the animation frame that ran them; the
\* tree shown comes from the second callback, made on the tree read before
\* the first ran, and its root's aggregate differs from the loaded tree's
C23_Witness ==
  /\ Len(calls) = 3
  /\ calls[1].fn = "setHierarchyData"
  /\ calls[2].fn = "updateNodeStatus" /\ calls[3].fn = "applyBulkOperation"
  /\ calls[2].nodeId # calls[3].nodeId
  /\ store.frames = <<>>
  /\ store.hierarchyData # None
  /\ calls[2].nodeId \in TreeIds(heap, shown)
  /\ calls[3].nodeId \in TreeIds(heap, shown)
  /\ ShownStatus(calls[2].nodeId) # calls[2].status
  /\ heap[shown].calculatedValue # 0

----------------------------------------------------------------------------
(* C24: at most one callback requested by updateNodeStatus or              *)
(* applyBulkOperation of the store is waiting for its animation frame.     *)
C24_OneEditInFlight == Len(store.frames) <= 1

----------------------------------------------------------------------------
(* C25: when a dataset is loaded and updateNodeStatus(a, s1) and           *)
(* updateNodeStatus(b, s2) are then called for two different nodes of it,  *)
(* the tree shown once every callback has run has a at s1 and b at s2.     *)
C25_NoLostUpdate ==
  (/\ Len(calls) = 3
   /\ calls[1].fn = "setHierarchyData"
   /\ calls[2].fn = "updateNodeStatus"
   /\ calls[3].fn = "updateNodeStatus"
   /\ calls[2].nodeId # calls[3].nodeId
   /\ {calls[2].nodeId, calls[3].nodeId} \subseteq TreeIds(heap, calls[1].data)
   /\ store.frames = <<>>)
  => /\ ShownStatus(calls[2].nodeId) = calls[2].status
     /\ ShownStatus(calls[3].nodeId) = calls[3].status

----------------------------------------------------------------------------
\* the calls that load a dataset
Loads == {k \in 1..Len(calls) : calls[k].fn = "setHierarchyData"}

\* the dataset loaded last
loaded == calls[CHOOSE k \in Loads : \A j \in Loads : j <= k].data

(* C26: once setHierarchyData(d) has run, the tree shown has the root id   *)
(* and the node ids of d until the next setHierarchyData, also when a      *)
(* callback requested before the load runs after it.                       *)
C26_LoadNotOverwritten ==
  Loads # {} =>
    /\ heap[shown].id = heap[loaded].id
    /\ TreeIds(heap, shown) = TreeIds(heap, loaded)

----------------------------------------------------------------------------
(* C27: isCalculating is true whenever a callback is waiting for its       *)
(* animation frame and false when none is; while hierarchyData is null an  *)
(* edit requests nothing and the store stays as it was created.            *)
C27_IsCalculatingTracksPending ==
  /\ store.isCalculating <=> store.frames # <<>>
  /\ store.hierarchyData = None => store = initialStore

----------------------------------------------------------------------------
(* QuarterlyView: calculateScenarioValue(node) for the scenario in which   *)
(* no node is modified: the value of the node from the values of the       *)
(* leaves and the statuses alone.                                          *)

RECURSIVE calculateScenarioValue(_, _)
RECURSIVE scenarioChildrenSum(_, _, _)

scenarioChildrenSum(h, kids, i) ==
  IF i > Len(kids) THEN 0
  ELSE calculateScenarioValue(h, kids[i]) + scenarioChildrenSum(h, kids, i + 1)

calculateScenarioValue(h, a) ==
  LET node == h[a] IN
  IF node.children = None
    THEN (CASE node.status = "skip" -> 0
            [] node.status = "invert" -> 0 - valueOrZero(node)
            [] OTHER -> valueOrZero(node))
    ELSE LET childrenSum == scenarioChildrenSum(h, node.children[1], 1) IN
         CASE node.status = "skip" -> 0
           [] node.status = "invert" -> 0 - childrenSum
           [] OTHER -> childrenSum

\* the tree at a is field for field the tree recalculateTree returns for it
EqualsRecalculated(a) ==
  LET r == recalculateTree(Machine(heap, cache, "lru"), a) IN
  SameTree(r.m.heap, a, r.ret)

(* C28: after any sequence of updateNodeStatus and applyBulkOperation      *)
(* calls on a recalculated tree, every node's calculatedValue is the value *)
(* calculateScenarioValue computes for it from the leaves' values and the  *)
(* statuses, and the tree is field for field equal to recalculateTree      *)
(* applied to it.                                                          *)
C28_IncrementalEqualsFromScratch ==
  \A k \in Latest :
    IsEdit(k) =>
      /\ \A x \in Nodes(heap, calls[k].ret) :
           heap[x].calculatedValue = calculateScenarioValue(heap, x)
      /\ EqualsRecalculated(calls[k].ret)

----------------------------------------------------------------------------
\* calls k and k + 1 are updateNodeStatus calls, the second on the result
\* of the first, both for ids of the tree
Consecutive(k) ==
  /\ k >= 1
  /\ IsUpdate(k)
  /\ IsUpdate(k + 1)
  /\ calls[k + 1].rootNode = calls[k].ret

\* updateNodeStatus(t, nodeId, status) computed in the state at hand
updated(t, nodeId, status) == updateNodeStatus(Machine(heap, cache, "lru"), t, nodeId, status)

\* the statuses and aggregates of the tree at a, by id
StatusAndValue(h, a) ==
  {<<h[x].id, h[x].status, h[x].calculatedValue>> : x \in Nodes(h, a)}

(* C29: for a resolved tree t, an id of t and statuses a and b,            *)
(* updateNodeStatus(updateNodeStatus(t, id, a), id, b) is field for field  *)
(* equal to updateNodeStatus(t, id, b); with a = b the second call changes *)
(* nothing, and setting a node to the status it has leaves every status    *)
(* and calculatedValue as it was.                                          *)
C29_LastWriteWins ==
  \A k \in Latest :
    /\ Consecutive(k - 1) /\ calls[k].nodeId = calls[k - 1].nodeId =>
         LET t == calls[k - 1].rootNode
             direct == updated(t, calls[k].nodeId, calls[k].status)
         IN /\ SameTree(direct.m.heap, calls[k].ret, direct.ret)
            /\ calls[k].status = calls[k - 1].status =>
                 SameTree(heap, calls[k].ret, calls[k].rootNode)
    /\ (IsUpdate(k) /\ heap[Target(k)].status = calls[k].status) =>
         StatusAndValue(heap, calls[k].ret) = StatusAndValue(heap, calls[k].rootNode)

\* an inner node below an inverted or skipped root was set to one status
\* and then to another, both different from the status it had
C29_Witness ==
  /\ Len(calls) = 3
  /\ Consecutive(2)
  /\ calls[3].nodeId = calls[2].nodeId
  /\ calls[3].status # calls[2].status
  /\ heap[Target(2)].status \notin {calls[2].status, calls[3].status}
  /\ childrenList(heap, Target(2)) # <<>>
  /\ Target(2) # calls[2].rootNode
  /\ heap[calls[3].ret].calculatedValue # heap[calls[2].rootNode].calculatedValue

----------------------------------------------------------------------------
(* C30: for a resolved tree t and two different ids a and b of t, one of   *)
(* them an ancestor of the other or not,                                   *)
(* updateNodeStatus(updateNodeStatus(t, a, s1), b, s2) and                 *)
(* updateNodeStatus(updateNodeStatus(t, b, s2), a, s1) are field for field *)
(* equal on every node.                                                    *)
C30_EditsCommute ==
  \A k \in Latest :
    (Consecutive(k - 1) /\ calls[k].nodeId # calls[k - 1].nodeId) =>
      LET t == calls[k - 1].rootNode
          first == updateNodeStatus(Machine(heap, cache, "lru"), t,
                                    calls[k].nodeId, calls[k].status)
          second == updateNodeStatus(first.m, first.ret,
                                     calls[k - 1].nodeId, calls[k - 1].status)
      IN SameTree(second.m.heap, calls[k].ret, second.ret)

\* a normal node and then a normal descendant of it were given statuses
\* other than normal, and the first edit changed the root's aggregate
C30_Witness ==
  /\ Len(calls) = 3
  /\ Consecutive(2)
  /\ calls[3].nodeId # calls[2].nodeId
  /\ NodeOf(heap, calls[3].rootNode, calls[2].nodeId)
       \in PathTo(heap, calls[3].rootNode, calls[3].nodeId)
  /\ calls[2].status # "normal" /\ calls[3].status # "normal"
  /\ heap[Target(2)].status = "normal"
  /\ heap[Target(3)].status = "normal"
  /\ heap[calls[2].ret].calculatedValue # heap[calls[2].rootNode].calculatedValue

====
